---- MODULE Spec2Model ----
(***************************************************************************)
(* Model of the GBA-image-tools video path:                                *)
(*   - vid2h (src/vid2h.cpp): argument checking, construction of the       *)
(*     processing pipeline, the frame loop and the output step;            *)
(*   - the device decoder (src/gba/video.cpp): start-up, the timer-3       *)
(*     interrupt and the free-running decode loop;                         *)
(*   - the pixel format lookups (src/src/imagestructs.cpp).                *)
(* Three specifications share the module: Spec (vid2h), SpecDev (decoder)  *)
(* and SpecFmt (format lookups).  Each leaves the other parts idle.        *)
(***************************************************************************)
EXTENDS Integers, Sequences, FiniteSets, TLC

\* ------------------------------------------------------------------ bounds
\* Largest number of command line arguments after the program name.
MaxArgs == 5
\* Largest number of readFrame results a video stream delivers before its end.
MaxFrames == 2

\* ------------------------------------------------------- vid2h: the options
\* Members of ProcessingOptions used by vid2h (src/vid2h.cpp:67-84).
FormatOptions == {"blackWhite", "paletted", "truecolor"}
ConversionOptions == {"addColor0", "moveColor0", "shiftIndices", "pruneIndices", "sprites"}
\* Options for which readArguments calls no parse(): their isSet is written by
\* the command line parser itself at opts.parse (src/vid2h.cpp:87).
BoundOptions == {"tiles", "deltaImage", "delta8", "delta16", "dxt1", "rle",
                 "lz10", "lz11", "vram", "dryRun"}
OptionNames == FormatOptions \cup ConversionOptions \cup BoundOptions
\* What can be written on the command line: the options and -h.
FlagNames == OptionNames \cup {"help"}

\* Values N given with --paletted=N (palette sizes, far below the uint32_t range).
PalettedValues == {4, 16}

\* The input file argument: not given, a path that does not exist, a path of a
\* readable video, a path of a file the video reader cannot open.
InFiles == {"none", "missing", "video", "notvideo"}
\* The output name argument: not given, a name whose .bin file can be created,
\* a name whose .bin file cannot be created.
OutNames == {"none", "writable", "unwritable"}

NrOf(b) == IF b THEN 1 ELSE 0

\* argc of a command line: program name, flags, file arguments.
Argc(a) == 1 + Cardinality(a.flags) + NrOf(a.infile # "none") + NrOf(a.outname # "none")

\* The command lines the model runs vid2h on.
CommandLines ==
    { a \in [flags : SUBSET FlagNames, infile : InFiles, outname : OutNames,
             palettedN : PalettedValues \cup {0}] :
        /\ Argc(a) - 1 <= MaxArgs
        /\ (a.palettedN # 0) <=> ("paletted" \in a.flags) }

\* isSet of every option before main runs.
DefaultOptions == [n \in OptionNames |-> FALSE]

\* opts.parse(argc, argv): stores the flags bound to an isSet member.
CxxParse(o, a) == [n \in OptionNames |-> IF n \in BoundOptions THEN n \in a.flags ELSE o[n]]

\* options.X.parse(result) for the options named in xs.
OptionParse(o, xs, a) == [n \in OptionNames |-> IF n \in xs THEN n \in a.flags ELSE o[n]]

\* options.blackWhite + options.paletted + options.truecolor
FormatCount(o) == NrOf(o["blackWhite"]) + NrOf(o["paletted"]) + NrOf(o["truecolor"])

\* The result of readArguments and the globals it leaves behind.
Result(ok, o, value, inFile, outFile, out, err) ==
    [ok |-> ok, options |-> o, value |-> value, inFile |-> inFile,
     outFile |-> outFile, cout |-> out, cerr |-> err]

\* The tests of readArguments that reject a set of options.
NoFormat(o) == FormatCount(o) = 0                               \* line 129
\* Mutant of TooManyFormats: the limit is off by one.
TooManyFormatsOffByOne(o) == FormatCount(o) > 2
TooManyFormats(o) == FormatCount(o) > 1                         \* line 134
\* Mutant of BothLz: the test names the wrong pair of options.
BothLzWrongPair(o) == o["rle"] /\ o["lz11"]
BothLz(o) == o["lz10"] /\ o["lz11"]                             \* line 139

\* readArguments (src/vid2h.cpp:60-150).  The positional list (lines 109-124)
\* is non-empty only for a third file argument, when m_inFile and m_outFile
\* are both set already, so its loop body does not run.
readArguments(a, o, value) ==
    LET o1 == CxxParse(o, a)                                    \* line 87
        o2 == OptionParse(o1, FormatOptions, a)                 \* lines 126-128
        v2 == IF "paletted" \in a.flags THEN a.palettedN ELSE value
    IN  IF "help" \in a.flags                                   \* lines 89-92
        THEN Result(FALSE, o1, value, "none", "none", <<>>, <<>>)
        ELSE IF a.infile = "missing"                            \* lines 94-107
        THEN Result(FALSE, o1, value, a.infile, a.outname,
                    <<"Input file does not exist!">>, <<>>)
        ELSE IF NoFormat(o2)                                    \* lines 129-133
        THEN Result(FALSE, o2, v2, a.infile, a.outname, <<>>,
                    <<"One format option is needed.">>)
        ELSE IF TooManyFormats(o2)                              \* lines 134-138
        THEN Result(FALSE, o2, v2, a.infile, a.outname, <<>>,
                    <<"Only a single format option is allowed.">>)
        ELSE IF BothLz(o2)                                      \* lines 139-143
        THEN Result(FALSE, o2, v2, a.infile, a.outname, <<>>,
                    <<"Only a single LZ-compression option is allowed.">>)
        ELSE Result(TRUE, OptionParse(o2, ConversionOptions, a), \* lines 144-149
                    v2, a.infile, a.outname, <<>>, <<>>)

\* ------------------------------------------------------ vid2h: the pipeline
\* Image::Processing::addStep(type, parameters, compresses = false): appends.
addStep(s, type, param, compresses) ==
    Append(s, [type |-> type, param |-> param, compresses |-> compresses])

\* Input step (src/vid2h.cpp:230-244).  Parameter values other than
\* paletted.value are not tracked and written 0.
InputSteps(o, value, s) ==
    IF o["blackWhite"] THEN addStep(s, "InputBlackWhite", 0, FALSE)
    ELSE IF o["paletted"] THEN addStep(s, "InputPaletted", value, FALSE)
    ELSE IF o["truecolor"] THEN addStep(s, "InputTruecolor", 0, FALSE)
    ELSE s

\* Mutant of PadCount: the entry added by addColor0 is not counted.
PadCountWithoutColor0(o, value) == value
\* The entry count given to PadColorMap when pruneIndices is not selected.
PadCount(o, value) == value + NrOf(o["addColor0"])             \* line 268

\* Conversion steps (src/vid2h.cpp:245-270).
ConversionSteps(o, value, s) ==
    IF ~o["paletted"] THEN s
    ELSE LET s1 == addStep(s, "ReorderColors", 0, FALSE)
             s2 == IF o["addColor0"] THEN addStep(s1, "AddColor0", 0, FALSE) ELSE s1
             s3 == IF o["moveColor0"] THEN addStep(s2, "MoveColor0", 0, FALSE) ELSE s2
             s4 == IF o["shiftIndices"] THEN addStep(s3, "ShiftIndices", 0, FALSE) ELSE s3
         IN  IF o["pruneIndices"]
             THEN addStep(addStep(s4, "PruneIndices", 0, FALSE), "PadColorMap", 16, FALSE)
             ELSE addStep(s4, "PadColorMap", PadCount(o, value), FALSE)

\* Mutant of StageSteps: the padding is added before the compression steps.
StageStepsPadEarly(o, s) ==
    LET s1 == IF o["sprites"] THEN addStep(s, "ConvertSprites", 0, FALSE) ELSE s
        s2 == IF o["tiles"] THEN addStep(s1, "ConvertTiles", 0, FALSE) ELSE s1
        s3 == IF o["deltaImage"] THEN addStep(s2, "DeltaImage", 0, FALSE) ELSE s2
        s4 == IF o["dxt1"] THEN addStep(s3, "CompressDXT1", 0, TRUE) ELSE s3
        s5 == IF o["delta8"] THEN addStep(s4, "ConvertDelta8", 0, FALSE) ELSE s4
        s6 == IF o["delta16"] THEN addStep(s5, "ConvertDelta16", 0, FALSE) ELSE s5
        s7 == addStep(s6, "PadImageData", 4, FALSE)
        s8 == IF o["rle"] THEN addStep(s7, "CompressRLE", NrOf(o["vram"]), TRUE) ELSE s7
        s9 == IF o["lz10"] THEN addStep(s8, "CompressLz10", NrOf(o["vram"]), TRUE) ELSE s8
    IN  IF o["lz11"] THEN addStep(s9, "CompressLz11", NrOf(o["vram"]), TRUE) ELSE s9

\* Reshape, delta and compression steps and the padding (src/vid2h.cpp:271-307).
StageSteps(o, s) ==
    LET s1 == IF o["sprites"] THEN addStep(s, "ConvertSprites", 0, FALSE) ELSE s
        s2 == IF o["tiles"] THEN addStep(s1, "ConvertTiles", 0, FALSE) ELSE s1
        s3 == IF o["deltaImage"] THEN addStep(s2, "DeltaImage", 0, FALSE) ELSE s2
        s4 == IF o["dxt1"] THEN addStep(s3, "CompressDXT1", 0, TRUE) ELSE s3
        s5 == IF o["delta8"] THEN addStep(s4, "ConvertDelta8", 0, FALSE) ELSE s4
        s6 == IF o["delta16"] THEN addStep(s5, "ConvertDelta16", 0, FALSE) ELSE s5
        s7 == IF o["rle"] THEN addStep(s6, "CompressRLE", NrOf(o["vram"]), TRUE) ELSE s6
        s8 == IF o["lz10"] THEN addStep(s7, "CompressLz10", NrOf(o["vram"]), TRUE) ELSE s7
        s9 == IF o["lz11"] THEN addStep(s8, "CompressLz11", NrOf(o["vram"]), TRUE) ELSE s8
    IN  addStep(s9, "PadImageData", 4, FALSE)

\* maxColorMapColors (src/vid2h.cpp:339).
MaxColorMapColors(o, value) ==
    IF o["paletted"]
    THEN (IF o["pruneIndices"] THEN 16 ELSE value + NrOf(o["addColor0"]))
    ELSE 0

\* ------------------------------------------------------- vid2h: the frames
\* The streams a video can deliver: each readFrame result is a frame (TRUE)
\* or empty (FALSE); past the end every result is empty.
Streams == UNION { [1..n -> BOOLEAN] : n \in 0..MaxFrames }

\* VideoReader::readFrame at read position pos: the frame, named by its
\* position in the stream, or 0 for an empty result.
readFrame(st, pos) == IF pos < Len(st) /\ st[pos + 1] THEN pos + 1 ELSE 0

\* Image::Processing::processStream: the image made from a frame by the steps.
processStream(s, frame) == [source |-> frame, stages |-> Len(s)]

\* ---------------------------------------------------------- device decoder
\* Largest number of frames in the header of the embedded video.
MaxDevFrames == 3
\* Largest number of frames the model lets the main loop fetch.
MaxIterations == 5
\* Largest number of steps the decoding of one frame takes.
MaxDecodeSteps == 2

\* sizeof(ScratchPad) in bytes (src/gba/video.cpp:25): 19208 * 2 / 4 words.
ScratchPadSize == ((19208 * 2) \div 4) * 4

\* maxMemoryNeeded values of the headers the model reads.
MemoryNeeds == {ScratchPadSize - 4, ScratchPadSize, ScratchPadSize + 4}

\* The headers at VIDEO_DATA.
Headers == [nrOfFrames : 1..MaxDevFrames, maxMemoryNeeded : MemoryNeeds]

\* Video::Frame{}: no frame yet.
NoFrame == [index |-> -1]

\* Video::GetNextFrame(info, previous): the frame after previous, the first
\* frame after none and after the last one.
GetNextFrame(info, previous) ==
    IF previous.index < 0 \/ previous.index >= info.nrOfFrames - 1
    THEN [index |-> 0]
    ELSE [index |-> previous.index + 1]

\* --------------------------------------------------------- format lookups
\* Largest number of lookups in one run of the model.
MaxCalls == 2

\* The tags of ColorFormat with a case in the switches.
ColorFormat == {"Paletted1", "Paletted2", "Paletted4", "Paletted8",
                "RGB555", "RGB565", "RGB888"}
\* Tag values without a case: the Unknown tag and a value outside the enum.
OtherTags == {"Unknown", "OutOfRange"}
Tags == ColorFormat \cup OtherTags

Returned(v, str) == [throws |-> FALSE, what |-> "", value |-> v, str |-> str]
Thrown(what) == [throws |-> TRUE, what |-> what, value |-> 0, str |-> ""]

\* Mutant of bitsPerPixelForFormat: the case of RGB565 is missing.
bitsPerPixelForFormatNoRGB565(format) ==
    CASE format = "Paletted1" -> Returned(1, "")
      [] format = "Paletted2" -> Returned(2, "")
      [] format = "Paletted4" -> Returned(4, "")
      [] format = "Paletted8" -> Returned(8, "")
      [] format = "RGB555" -> Returned(15, "")
      [] format = "RGB888" -> Returned(24, "")
      [] OTHER -> Thrown("Bad color format")

\* Image::bitsPerPixelForFormat (src/src/imagestructs.cpp:6-27).
bitsPerPixelForFormat(format) ==
    CASE format = "Paletted1" -> Returned(1, "")
      [] format = "Paletted2" -> Returned(2, "")
      [] format = "Paletted4" -> Returned(4, "")
      [] format = "Paletted8" -> Returned(8, "")
      [] format = "RGB555" -> Returned(15, "")
      [] format = "RGB565" -> Returned(16, "")
      [] format = "RGB888" -> Returned(24, "")
      [] OTHER -> Thrown("Bad color format")

\* Image::to_string (src/src/imagestructs.cpp:29-50).
to_string(format) ==
    CASE format = "Paletted1" -> Returned(0, "paletted 1-bit")
      [] format = "Paletted2" -> Returned(0, "paletted 2-bit")
      [] format = "Paletted4" -> Returned(0, "paletted 4-bit")
      [] format = "Paletted8" -> Returned(0, "paletted 8-bit")
      [] format = "RGB555" -> Returned(0, "RGB555")
      [] format = "RGB565" -> Returned(0, "RGB565")
      [] format = "RGB888" -> Returned(0, "RGB888")
      [] OTHER -> Thrown("Bad color format")

\* ------------------------------------------------------------------- state
VARIABLES
    \* vid2h
    args,               \* the command line
    options,            \* isSet of the global ProcessingOptions
    palettedValue,      \* options.paletted.value
    m_inFile, m_outFile,
    pc,                 \* position of vid2h's main
    exitCode,           \* exit status of vid2h, -1 while it runs
    cout, cerr,         \* what was written to the output and the error stream
    openCalled,         \* videoReader.open has been called
    stream,             \* what the opened video delivers
    readPos,            \* number of readFrame calls made
    steps,              \* the steps of processing
    framesRead,         \* the results of the readFrame calls, in order
    processed,          \* the frames passed to processStream, in order
    images,             \* the vector images
    maxColorMapColors,  \* the local of that name, -1 before it is set
    \* device decoder
    dpc,                \* position of the decoder's main
    videoInfo,          \* the header read by Video::GetInfo
    frameRequested,
    timer3,             \* timer 3 runs with its interrupt enabled
    irqPending,         \* timer 3 has overflowed, the handler has not run yet
    handlerRan,         \* frameRequest has run at least once
    frame,              \* the local frame of the main loop
    decodeLeft,         \* steps left of the running Video::decode
    fetched,            \* the frame indices fetched by GetNextFrame, in order
    decoded,            \* the frame indices Video::decode has completed, in order
    \* format lookups
    calls               \* the lookups made and their results

hostVars == <<args, options, palettedValue, m_inFile, m_outFile, pc, exitCode, cout, cerr,
              openCalled, stream, readPos, steps, framesRead, processed, images,
              maxColorMapColors>>
devVars == <<dpc, videoInfo, frameRequested, timer3, irqPending, handlerRan, frame,
             decodeLeft, fetched, decoded>>
fmtVars == <<calls>>
vars == <<hostVars, devVars, fmtVars>>

\* The state of each part before it runs.
HostIdle ==
    /\ options = DefaultOptions /\ palettedValue = 0
    /\ m_inFile = "none" /\ m_outFile = "none"
    /\ pc = "start" /\ exitCode = -1 /\ cout = <<>> /\ cerr = <<>>
    /\ openCalled = FALSE /\ stream = <<>> /\ readPos = 0
    /\ steps = <<>> /\ framesRead = <<>> /\ processed = <<>> /\ images = <<>>
    /\ maxColorMapColors = -1
DevIdle ==
    /\ dpc = "boot" /\ frameRequested = TRUE                    \* src/gba/video.cpp:18
    /\ timer3 = FALSE /\ irqPending = FALSE /\ handlerRan = FALSE
    /\ frame = NoFrame /\ decodeLeft = 0 /\ fetched = <<>> /\ decoded = <<>>
FmtIdle == calls = <<>>

\* ------------------------------------------------------------ vid2h: main
Exit(code) == pc' = "exit" /\ exitCode' = code

\* Lines 196-200: too few arguments or rejected arguments print the usage
\* and return 2.
CheckArguments ==
    /\ pc = "start"
    /\ LET r == IF Argc(args) < 3
                THEN Result(FALSE, options, palettedValue, m_inFile, m_outFile, <<>>, <<>>)
                ELSE readArguments(args, options, palettedValue)
       IN  /\ options' = r.options
           /\ palettedValue' = r.value
           /\ m_inFile' = r.inFile
           /\ m_outFile' = r.outFile
           /\ cerr' = cerr \o r.cerr
           /\ IF r.ok
              THEN /\ pc' = "files"
                   /\ cout' = cout \o r.cout
                   /\ UNCHANGED exitCode
              ELSE /\ Exit(2)
                   /\ cout' = cout \o r.cout \o <<"Usage: vid2h ...">>
    /\ UNCHANGED <<args, openCalled, stream, readPos, steps, framesRead, processed, images,
                   maxColorMapColors, devVars, fmtVars>>

\* Lines 202-211.
CheckFiles ==
    /\ pc = "files"
    /\ IF m_inFile = "none"
       THEN cerr' = Append(cerr, "No input file passed. Aborting.") /\ Exit(1)
       ELSE IF m_outFile = "none"
       THEN cerr' = Append(cerr, "No output file passed. Aborting.") /\ Exit(1)
       ELSE pc' = "open" /\ UNCHANGED <<cerr, exitCode>>
    /\ UNCHANGED <<args, options, palettedValue, m_inFile, m_outFile, cout, openCalled, stream,
                   readPos, steps, framesRead, processed, images, maxColorMapColors,
                   devVars, fmtVars>>

\* Lines 213-229: open the video; a file the reader cannot open ends the run.
OpenVideo ==
    /\ pc = "open"
    /\ openCalled' = TRUE
    /\ \/ /\ m_inFile = "video"
          /\ \E st \in Streams : stream' = st
          /\ cout' = cout \o <<"Opening ...", "Video stream ...">>
          /\ pc' = "input"
          /\ UNCHANGED <<cerr, exitCode>>
       \/ /\ m_inFile # "video"
          /\ cout' = Append(cout, "Opening ...")
          /\ cerr' = Append(cerr, "Failed to open video file")
          /\ Exit(1)
          /\ UNCHANGED stream
    /\ UNCHANGED <<args, options, palettedValue, m_inFile, m_outFile, readPos, steps,
                   framesRead, processed, images, maxColorMapColors, devVars, fmtVars>>

\* Lines 230-244.
BuildInput ==
    /\ pc = "input"
    /\ steps' = InputSteps(options, palettedValue, steps)
    /\ pc' = "conversion"
    /\ UNCHANGED <<args, options, palettedValue, m_inFile, m_outFile, exitCode, cout, cerr,
                   openCalled, stream, readPos, framesRead, processed, images,
                   maxColorMapColors, devVars, fmtVars>>

\* Lines 245-270.
BuildConversion ==
    /\ pc = "conversion"
    /\ steps' = ConversionSteps(options, palettedValue, steps)
    /\ pc' = "stages"
    /\ UNCHANGED <<args, options, palettedValue, m_inFile, m_outFile, exitCode, cout, cerr,
                   openCalled, stream, readPos, framesRead, processed, images,
                   maxColorMapColors, devVars, fmtVars>>

\* Lines 271-314.
BuildStages ==
    /\ pc = "stages"
    /\ steps' = StageSteps(options, steps)
    /\ cout' = Append(cout, "Applying processing: ...")
    /\ pc' = "frames"
    /\ UNCHANGED <<args, options, palettedValue, m_inFile, m_outFile, exitCode, cerr,
                   openCalled, stream, readPos, framesRead, processed, images,
                   maxColorMapColors, devVars, fmtVars>>

\* Mutant of LoopIteration: the frame is processed before it is tested for
\* being empty.
LoopIterationLateTest ==
    /\ pc = "frames"
    /\ LET f == readFrame(stream, readPos)
       IN  /\ readPos' = readPos + 1
           /\ framesRead' = Append(framesRead, f)
           /\ processed' = Append(processed, f)
           /\ images' = Append(images, processStream(steps, f))
           /\ pc' = IF f = 0 THEN "info" ELSE pc
    /\ UNCHANGED <<args, options, palettedValue, m_inFile, m_outFile, cout, cerr, exitCode,
                   openCalled, stream, steps, maxColorMapColors, devVars, fmtVars>>

\* One iteration of the frame loop (lines 315-334): an empty frame leaves the
\* loop; any other frame is processed and its image appended, unless
\* processStream throws, which the handler at lines 375-379 turns into exit 1.
LoopIteration ==
    /\ pc = "frames"
    /\ LET f == readFrame(stream, readPos)
       IN  /\ readPos' = readPos + 1
           /\ framesRead' = Append(framesRead, f)
           /\ IF f = 0
              THEN /\ pc' = "info"
                   /\ UNCHANGED <<processed, images, cerr, exitCode>>
              ELSE /\ processed' = Append(processed, f)
                   /\ \/ /\ images' = Append(images, processStream(steps, f))
                         /\ UNCHANGED <<pc, cerr, exitCode>>
                      \/ /\ cerr' = Append(cerr, "Error: ...")
                         /\ Exit(1)
                         /\ UNCHANGED images
    /\ UNCHANGED <<args, options, palettedValue, m_inFile, m_outFile, cout, openCalled, stream,
                   steps, maxColorMapColors, devVars, fmtVars>>

\* Lines 336-346.  images.front() of an empty vector is undefined: the run
\* either dies there or goes on with whatever it read.
ImageInfo ==
    /\ pc = "info"
    /\ \/ /\ images # <<>>
          /\ maxColorMapColors' = MaxColorMapColors(options, palettedValue)
          /\ cout' = cout \o <<"Input size: ...", "Compressed size: ...", "Bit rate: ...">>
          /\ pc' = "output"
          /\ UNCHANGED exitCode
       \/ /\ images = <<>>
          /\ maxColorMapColors' = MaxColorMapColors(options, palettedValue)
          /\ cout' = cout \o <<"Input size: ...", "Compressed size: ...", "Bit rate: ...">>
          /\ pc' = "output"
          /\ UNCHANGED exitCode
       \/ /\ images = <<>>
          /\ Exit(139)
          /\ UNCHANGED <<maxColorMapColors, cout>>
    /\ UNCHANGED <<args, options, palettedValue, m_inFile, m_outFile, cerr, openCalled, stream,
                   readPos, steps, framesRead, processed, images, devVars, fmtVars>>

\* Lines 347-380.
WriteOutput ==
    /\ pc = "output"
    /\ IF options["dryRun"]
       THEN cout' = Append(cout, "Done") /\ Exit(0) /\ UNCHANGED cerr
       ELSE IF m_outFile = "writable"
       THEN cout' = cout \o <<"Writing output file ...", "Done">> /\ Exit(0) /\ UNCHANGED cerr
       ELSE cerr' = Append(cerr, "Failed to open ... for writing") /\ Exit(1) /\ UNCHANGED cout
    /\ UNCHANGED <<args, options, palettedValue, m_inFile, m_outFile, openCalled, stream,
                   readPos, steps, framesRead, processed, images, maxColorMapColors,
                   devVars, fmtVars>>

\* A command line and a header for the parts a specification leaves idle.
NoCommandLine == [flags |-> {}, infile |-> "none", outname |-> "none", palettedN |-> 0]
NoHeader == [nrOfFrames |-> 1, maxMemoryNeeded |-> 0]

Init ==
    /\ args \in CommandLines
    /\ HostIdle
    /\ videoInfo = NoHeader
    /\ DevIdle
    /\ FmtIdle

Next ==
    \/ CheckArguments
    \/ CheckFiles
    \/ OpenVideo
    \/ BuildInput
    \/ BuildConversion
    \/ BuildStages
    \/ LoopIteration
    \/ ImageInfo
    \/ WriteOutput

Spec == Init /\ [][Next]_vars

\* ---------------------------------------------------- device decoder: main
\* Lines 29-45: set up, read the header and print it.
ReadHeader ==
    /\ dpc = "boot"
    /\ dpc' = "waitkey"
    /\ UNCHANGED <<videoInfo, frameRequested, timer3, irqPending, frame, decodeLeft,
                   fetched, decoded, handlerRan, hostVars,
                   fmtVars>>

\* Lines 46-68: key A pressed; switch the video mode, install frameRequest as
\* the handler of timer 3, start the timer and create the empty frame.
StartPlayback ==
    /\ dpc = "waitkey"
    /\ timer3' = TRUE
    /\ frame' = NoFrame
    /\ dpc' = "fetch"
    /\ UNCHANGED <<videoInfo, frameRequested, irqPending, decodeLeft, fetched, decoded,
                   handlerRan, hostVars,
                   fmtVars>>

\* Mutant of Fetch: the wait for the timer's request (the code commented out
\* at lines 72-75) is active.
FetchOnRequest ==
    /\ dpc = "fetch"
    /\ Len(fetched) < MaxIterations
    /\ frameRequested
    /\ frameRequested' = FALSE
    /\ frame' = GetNextFrame(videoInfo, frame)
    /\ fetched' = Append(fetched, frame'.index)
    /\ \E n \in 1..MaxDecodeSteps : decodeLeft' = n
    /\ dpc' = "decode"
    /\ UNCHANGED <<videoInfo, timer3, irqPending, decoded, handlerRan, hostVars,
                   fmtVars>>

\* Mutant of Fetch: a frame is skipped when the timer has asked for the next
\* one already.
FetchSkipping ==
    /\ dpc = "fetch"
    /\ Len(fetched) < MaxIterations
    /\ frame' = IF irqPending
                THEN GetNextFrame(videoInfo, GetNextFrame(videoInfo, frame))
                ELSE GetNextFrame(videoInfo, frame)
    /\ fetched' = Append(fetched, frame'.index)
    /\ \E n \in 1..MaxDecodeSteps : decodeLeft' = n
    /\ dpc' = "decode"
    /\ UNCHANGED <<videoInfo, frameRequested, timer3, irqPending, decoded, handlerRan, hostVars,
                   fmtVars>>

\* Lines 69-81: the head of a loop iteration; fetch the next frame and call
\* Video::decode on it.
Fetch ==
    /\ dpc = "fetch"
    /\ Len(fetched) < MaxIterations
    /\ frame' = GetNextFrame(videoInfo, frame)
    /\ fetched' = Append(fetched, frame'.index)
    /\ \E n \in 1..MaxDecodeSteps : decodeLeft' = n
    /\ dpc' = "decode"
    /\ UNCHANGED <<videoInfo, frameRequested, timer3, irqPending, decoded, handlerRan, hostVars,
                   fmtVars>>

\* Lines 81-85: Video::decode works on the frame; when it returns the
\* iteration ends.
Decode ==
    /\ dpc = "decode"
    /\ decodeLeft' = decodeLeft - 1
    /\ IF decodeLeft = 1
       THEN decoded' = Append(decoded, frame.index) /\ dpc' = "fetch"
       ELSE UNCHANGED <<decoded, dpc>>
    /\ UNCHANGED <<videoInfo, frameRequested, timer3, irqPending, frame, fetched,
                   handlerRan, hostVars,
                   fmtVars>>

\* Timer 3 overflows (started at lines 61-66) and raises its interrupt.
Timer3Overflow ==
    /\ timer3
    /\ ~irqPending
    /\ irqPending' = TRUE
    /\ UNCHANGED <<dpc, videoInfo, frameRequested, timer3, frame, decodeLeft, fetched,
                   decoded, handlerRan, hostVars,
                   fmtVars>>

\* The interrupt handler frameRequest (lines 20-23).
frameRequest ==
    /\ irqPending
    /\ irqPending' = FALSE
    /\ frameRequested' = TRUE
    /\ handlerRan' = TRUE
    /\ UNCHANGED <<dpc, videoInfo, timer3, frame, decodeLeft, fetched, decoded, hostVars,
                   fmtVars>>

InitDev ==
    /\ args = NoCommandLine
    /\ HostIdle
    /\ videoInfo \in Headers
    /\ DevIdle
    /\ FmtIdle

NextDev ==
    \/ ReadHeader
    \/ StartPlayback
    \/ Fetch
    \/ Decode
    \/ Timer3Overflow
    \/ frameRequest

SpecDev == InitDev /\ [][NextDev]_vars

\* ---------------------------------------------------------- format lookups
CallBitsPerPixel ==
    /\ Len(calls) < MaxCalls
    /\ \E f \in Tags :
          calls' = Append(calls, [fn |-> "bitsPerPixelForFormat", format |-> f,
                                  result |-> bitsPerPixelForFormat(f)])
    /\ UNCHANGED <<hostVars, devVars>>

CallToString ==
    /\ Len(calls) < MaxCalls
    /\ \E f \in Tags :
          calls' = Append(calls, [fn |-> "to_string", format |-> f,
                                  result |-> to_string(f)])
    /\ UNCHANGED <<hostVars, devVars>>

InitFmt ==
    /\ args = NoCommandLine
    /\ HostIdle
    /\ videoInfo = NoHeader
    /\ DevIdle
    /\ FmtIdle

NextFmt ==
    \/ CallBitsPerPixel
    \/ CallToString

SpecFmt == InitFmt /\ [][NextFmt]_vars

\* ================================================================== claims
\* Number of format options selected on the command line.
Selected(a) == Cardinality(a.flags \cap FormatOptions)
\* readArguments is called and gets as far as its tests of the options.
OptionsTested(a) == Argc(a) >= 3 /\ "help" \notin a.flags /\ a.infile # "missing"
\* main has got past its test of the arguments.
Accepted == pc # "start" /\ exitCode # 2

\* C1: once the arguments are checked, a command line with zero, two or three
\* format options has ended the run with status 2, without the video being
\* opened and without a frame read or passed to processStream; and among the
\* command lines whose options readArguments tests and that do not select
\* lz10 with lz11, the accepted ones are exactly those with one format option.
C1_ExactlyOneFormat ==
    pc # "start" =>
        /\ Selected(args) # 1 =>
              /\ pc = "exit" /\ exitCode = 2
              /\ ~openCalled /\ framesRead = <<>> /\ processed = <<>> /\ steps = <<>>
        /\ (OptionsTested(args) /\ ~({"lz10", "lz11"} \subseteq args.flags)) =>
              (Accepted <=> Selected(args) = 1)

\* C1 witness: two format options were given to a readable video and rejected.
C1_Witness ==
    /\ Selected(args) = 2 /\ args.infile = "video" /\ args.outname = "writable"
    /\ pc = "exit" /\ exitCode = 2
    /\ cerr = <<"Only a single format option is allowed.">>

\* C2: a command line with lz10 and lz11 has, once the arguments are checked,
\* ended the run with status 2 before the video is opened or a frame is read,
\* and no pipeline holds a CompressLz10 step together with a CompressLz11 step.
C2_NotBothLz ==
    /\ (pc # "start" /\ {"lz10", "lz11"} \subseteq args.flags) =>
          /\ pc = "exit" /\ exitCode = 2
          /\ ~openCalled /\ framesRead = <<>> /\ processed = <<>> /\ steps = <<>>
    /\ ~(\E i, j \in DOMAIN steps :
            steps[i].type = "CompressLz10" /\ steps[j].type = "CompressLz11")

\* C2 witness: one format option, lz10 and lz11, rejected by the LZ test.
C2_Witness ==
    /\ {"lz10", "lz11"} \subseteq args.flags /\ Selected(args) = 1
    /\ pc = "exit" /\ exitCode = 2
    /\ cerr = <<"Only a single LZ-compression option is allowed.">>

\* C3 (as claimed): every pipeline has at most one step with compresses = true.
C3_AtMostOneCompresses ==
    Cardinality({i \in DOMAIN steps : steps[i].compresses}) <= 1

\* The group of a step type in the canonical order.
Group(type) ==
    CASE type \in {"InputBlackWhite", "InputPaletted", "InputTruecolor"} -> 1
      [] type \in {"ReorderColors", "AddColor0", "MoveColor0", "ShiftIndices",
                   "PruneIndices", "PadColorMap"} -> 2
      [] type \in {"ConvertSprites", "ConvertTiles"} -> 3
      [] type = "DeltaImage" -> 4
      [] type = "CompressDXT1" -> 5
      [] type \in {"ConvertDelta8", "ConvertDelta16"} -> 6
      [] type = "CompressRLE" -> 7
      [] type \in {"CompressLz10", "CompressLz11"} -> 8
      [] type = "PadImageData" -> 9
\* All addStep calls of main have been made.
PipelineBuilt == pc \in {"frames", "info", "output"} \/ (pc = "exit" /\ steps # <<>>)
StepsOfGroup(g) == {i \in DOMAIN steps : Group(steps[i].type) = g}

\* C4: a built pipeline starts with its only input step, ends with its only
\* PadImageData step, which pads to 4, and its steps are in the order of
\* their groups.
C4_CanonicalOrder ==
    PipelineBuilt =>
        /\ StepsOfGroup(1) = {1}
        /\ StepsOfGroup(9) = {Len(steps)}
        /\ steps[Len(steps)].param = 4
        /\ \A i, j \in DOMAIN steps : i < j => Group(steps[i].type) <= Group(steps[j].type)

\* C4 witness: a built pipeline with palette steps, a delta step and a
\* compression step.
C4_Witness ==
    /\ pc = "frames"
    /\ StepsOfGroup(2) # {} /\ StepsOfGroup(4) # {} /\ StepsOfGroup(8) # {}

\* The unrecoverable conditions a finished run has hit.
InputMissing == m_inFile = "missing"
InputUnreadable == openCalled /\ m_inFile = "notvideo"
NoFormatOption == OptionsTested(args) /\ Selected(args) = 0
ConflictingOptions ==
    OptionsTested(args) /\ (Selected(args) > 1 \/ {"lz10", "lz11"} \subseteq args.flags)
OutputNotOpened == maxColorMapColors # -1 /\ ~options["dryRun"] /\ m_outFile = "unwritable"

\* C5 (as claimed): a run that has ended on an unrecoverable condition has a
\* non-zero exit status and has written a diagnostic to the error stream.
C5_DiagnosticOnError ==
    (pc = "exit" /\ (InputMissing \/ InputUnreadable \/ NoFormatOption
                     \/ ConflictingOptions \/ OutputNotOpened)) =>
        (exitCode # 0 /\ cerr # <<>>)

\* C6: the frames fetched by the main loop are frame 0, 1, 2, ... of the
\* video in this order, starting again at 0 after the last one; every fetched
\* frame is decoded exactly once and to completion before the next fetch (only
\* the frame being decoded is fetched and not yet decoded), whenever timer 3
\* fires.
C6_SequentialFrames ==
    /\ \A i \in DOMAIN fetched : fetched[i] = (i - 1) % videoInfo.nrOfFrames
    /\ Len(decoded) = Len(fetched) - NrOf(dpc = "decode")
    /\ \A i \in DOMAIN decoded : decoded[i] = fetched[i]
    /\ dpc = "decode" => frame.index = fetched[Len(fetched)] /\ decodeLeft >= 1
    /\ dpc = "fetch" => decodeLeft = 0

\* C6 witness: the decoder has gone round the whole video and timer 3 has
\* fired while a frame of more than one decode step is being decoded.
C6_Witness ==
    /\ Len(decoded) > videoInfo.nrOfFrames /\ videoInfo.nrOfFrames > 1
    /\ dpc = "decode" /\ decodeLeft = 1 /\ irqPending

\* C7 (as claimed): Video::decode runs only when the header's
\* maxMemoryNeeded fits the ScratchPad.
C7_DecodeOnlyWithinScratchPad ==
    dpc = "decode" => videoInfo.maxMemoryNeeded <= ScratchPadSize

\* The bit widths the formats are documented to have.
DocumentedBits ==
    [f \in ColorFormat |->
        CASE f = "Paletted1" -> 1 [] f = "Paletted2" -> 2 [] f = "Paletted4" -> 4
          [] f = "Paletted8" -> 8 [] f = "RGB555" -> 15 [] f = "RGB565" -> 16
          [] f = "RGB888" -> 24]

\* C8: every lookup of a format with a documented width returns, and
\* bitsPerPixelForFormat returns that width; every lookup of another tag
\* throws "Bad color format", by bitsPerPixelForFormat and by to_string alike.
C8_BitsPerPixel ==
    \A i \in DOMAIN calls :
        LET c == calls[i]
        IN  IF c.format \in ColorFormat
            THEN /\ ~c.result.throws
                 /\ c.fn = "bitsPerPixelForFormat" => c.result.value = DocumentedBits[c.format]
            ELSE c.result.throws /\ c.result.what = "Bad color format"

\* C8 witness: RGB565 was looked up for its width and an unknown tag for its name.
C8_Witness ==
    /\ \E i \in DOMAIN calls :
          /\ calls[i].fn = "bitsPerPixelForFormat" /\ calls[i].format = "RGB565"
          /\ calls[i].result.value = 16
    /\ \E i \in DOMAIN calls :
          /\ calls[i].fn = "to_string" /\ calls[i].format = "OutOfRange"
          /\ calls[i].result.throws

PaletteSteps == StepsOfGroup(2)
PadColorMapSteps == {i \in DOMAIN steps : steps[i].type = "PadColorMap"}
\* The entry count the selected options ask the colour map to be padded to.
SelectedPadCount ==
    IF "pruneIndices" \in args.flags THEN 16
    ELSE args.palettedN + NrOf("addColor0" \in args.flags)

\* C9: a built pipeline of a paletted run has exactly one PadColorMap step,
\* with 16 entries and right after PruneIndices when pruneIndices is selected
\* and with paletted.value entries, plus one for addColor0, otherwise; the
\* pipeline of any other run has no palette step; maxColorMapColors, once
\* computed, is that entry count for a paletted run and 0 for any other.
C9_PadColorMap ==
    PipelineBuilt =>
        IF "paletted" \in args.flags
        THEN /\ Cardinality(PadColorMapSteps) = 1
             /\ \A i \in PadColorMapSteps :
                   /\ steps[i].param = SelectedPadCount
                   /\ ("pruneIndices" \in args.flags) <=> (steps[i - 1].type = "PruneIndices")
             /\ maxColorMapColors # -1 =>
                   \A i \in PadColorMapSteps : maxColorMapColors = steps[i].param
        ELSE /\ PaletteSteps = {}
             /\ maxColorMapColors # -1 => maxColorMapColors = 0

\* C9 witness: a paletted run with addColor0 has computed maxColorMapColors.
C9_Witness ==
    /\ {"paletted", "addColor0"} \subseteq args.flags /\ "pruneIndices" \notin args.flags
    /\ pc = "output"
    /\ maxColorMapColors = args.palettedN + 1

\* The entries of a sequence of frames that are not empty.
NonEmpty(fs) == SelectSeq(fs, LAMBDA f : f # 0)
\* The frame loop was left at an empty frame.
LoopLeft == framesRead # <<>> /\ framesRead[Len(framesRead)] = 0

\* What C10 says of every state: the readFrame results are those of the
\* stream in its order, none but the last one is empty, the frames passed to
\* processStream are the non-empty frames read, in the order read, the images
\* are the results of processStream on them, in that order, all of them but
\* possibly the one on which processStream has just thrown, and all of them
\* once the loop is left.
FramesInOrder ==
    /\ Len(framesRead) = readPos
    /\ \A i \in DOMAIN framesRead :
          /\ framesRead[i] = readFrame(stream, i - 1)
          /\ i < Len(framesRead) => framesRead[i] # 0
    /\ processed = NonEmpty(framesRead)
    /\ Len(images) <= Len(processed)
    /\ Len(images) >= Len(processed) - NrOf(pc = "exit" /\ exitCode = 1)
    /\ \A i \in DOMAIN images : images[i] = processStream(steps, processed[i])
    /\ LoopLeft => Len(images) = Len(NonEmpty(framesRead))
    /\ LoopLeft <=> (pc \in {"info", "output"} \/ (pc = "exit" /\ exitCode \in {0, 139})
                     \/ (pc = "exit" /\ maxColorMapColors # -1))

\* What C10 says of every step: the steps of the pipeline change only before
\* the first readFrame call, and after the loop is left no frame is read.
FixedPipeline ==
    /\ steps' # steps => (readPos = 0 /\ readPos' = 0)
    /\ LoopLeft => UNCHANGED <<framesRead, processed, images, readPos>>

\* C10: frames are encoded in stream order on one fixed pipeline.
C10_StreamOrder == [](FramesInOrder) /\ [][FixedPipeline]_vars

\* C10 witness: two frames were read and processed and the loop was left.
C10_Witness ==
    /\ pc = "info" /\ Len(images) = 2 /\ Len(framesRead) = 3
    /\ images[1].source = 1 /\ images[2].source = 2

\* What C11 says of every state: frameRequested is true, and the main loop
\* can always take its next step: fetch (up to the number of iterations the
\* model follows) or go on decoding.
NeverBlocked ==
    /\ frameRequested = TRUE
    /\ (dpc = "fetch" /\ Len(fetched) < MaxIterations) => ENABLED Fetch
    /\ dpc = "decode" => ENABLED Decode

\* What C11 says of every step: frameRequested is never cleared, and a run
\* of the interrupt handler leaves the main loop's position, its frame, the
\* progress of the decoding and what was fetched and decoded as they are.
HandlerWritesFlagOnly ==
    /\ frameRequested => frameRequested'
    /\ (irqPending /\ ~irqPending') =>
          UNCHANGED <<dpc, videoInfo, timer3, frame, decodeLeft, fetched, decoded>>

\* C11: frameRequested is true in every state, the handler writes nothing
\* else, and the timer never blocks the decode loop.
C11_FrameRequestedAlwaysTrue == [](NeverBlocked) /\ [][HandlerWritesFlagOnly]_vars

\* C11 witness: the handler has run, no interrupt is pending and the loop has
\* gone on to fetch and decode a further frame.
C11_Witness ==
    /\ handlerRan /\ ~irqPending /\ frameRequested
    /\ dpc = "decode" /\ Len(fetched) >= 2 /\ decodeLeft = 1

\* C12 (as claimed): images.front() is read (lines 336-337) and the output
\* steps are reached only with an image in the list, and a run whose first
\* readFrame result is empty ends with a non-zero exit status.
C12_FrontOnlyWithImages ==
    /\ pc \in {"info", "output"} => images # <<>>
    /\ (pc = "exit" /\ framesRead = <<0>>) => exitCode # 0

====
